---- MODULE Spec2Model ----
(***************************************************************************)
(* The asynchronous codec pump of NAVCodecContext                          *)
(* (src/native/avcodec/codec-context.cpp).                                 *)
(*                                                                         *)
(* Two threads: the caller thread (the host runtime's main thread, which   *)
(* runs Open, SendFrame, SendPacket, the callback setters and Free) and    *)
(* the pump thread started by Open (ThreadMain).  Every action below is    *)
(* one handler of the caller thread, or one stretch of the pump's code     *)
(* between two accesses of memory it shares with the caller thread.        *)
(*                                                                         *)
(* The native codec engine (libavcodec) is outside the repository.  It is  *)
(* modelled by its documented contract: a send returns Accepted, Busy      *)
(* (EAGAIN) or Error, a receive returns Produced, Busy, Eof or Error, an   *)
(* encoder takes frames and a decoder takes packets, and every output      *)
(* comes from one accepted input.  The engine buffers up to               *)
(* EngineCapacity accepted inputs: a send is Busy exactly when the buffer  *)
(* is full, a receive can be Busy only while it is not full (libavcodec    *)
(* never answers EAGAIN to both), so a full engine takes new input only    *)
(* after a receive has drained it.  A call on a handle that Free has       *)
(* already released is undefined behaviour: it returns any result or       *)
(* crashes the pump.                                                       *)
(*                                                                         *)
(* The caller submits the kind of unit the context's codec takes (frames   *)
(* to an encoder with SendFrame, packets to a decoder with SendPacket) and *)
(* sets the output callback of the context's direction (onPacket on an     *)
(* encoder, onFrame on a decoder) besides onError.                         *)
(*                                                                         *)
(* The plain bool `running` is read and written without synchronisation;   *)
(* a read concurrent with the write sees either value, which is what the   *)
(* interleaving of the single steps below produces.                        *)
(***************************************************************************)
EXTENDS Integers, Sequences, FiniteSets, TLC

\* ------------------------------------------------------------------ bounds
MaxUnits == 2        \* units the caller submits (SendFrame/SendPacket calls)
MaxRefusals == 1     \* Error and Eof answers the engine gives
EngineCapacity == 1  \* accepted inputs the engine buffers before a send is Busy
MaxHandles == 3      \* native handles the library hands out (resource registry)
MaxWrappers == 3     \* wrapper instances constructed (resource registry)
MaxRequests == 3     \* FromHandle calls (resource registry)

\* slack of the pools: size() > height + 4
PoolSlack == 4

VARIABLES
    \* ---- NAVCodecContext fields
    opened,            \* bool opened
    running,           \* bool running
    threadCount,       \* number of std::thread objects Open has created
    handleState,       \* "live" | "released" (avcodec_free_context done) | "null"
    isEncoder,         \* av_codec_is_encoder(context->codec); decoder otherwise
    inQueue,           \* std::deque<WorkItem> inQueue
    onFrameValid, onPacketValid, onErrorValid,
    outChan,           \* calls queued on onFrameTSFN / onPacketTSFN, not yet run
    framePool, framePoolHeight,
    packetPool, packetPoolHeight,
    nextContainer,     \* containers allocated so far (av_frame_alloc/av_packet_alloc)
    \* ---- pump thread
    pumpPc,            \* position of the pump thread
    localQueue,        \* FeedToCodec's localQueue
    fed,               \* FeedToCodec's fed
    pulled,            \* the container a receive has filled, not yet dispatched
    notified,          \* a notify_one has reached the pump blocked in wait()
    \* ---- caller thread
    callerPc,          \* "idle" or the position inside Free
    callResult,        \* what the last call on the caller thread returned or threw
    nextId,            \* id of the next submitted unit
    \* ---- engine
    engineBuf,         \* ids of accepted inputs whose output is not yet produced
    refusals,
    \* ---- observations
    sendLog,           \* every engine send, in order
    dispatchLog,       \* every BlockingCall on onFrameTSFN / onPacketTSFN
    errorLog,          \* every call of SendError, delivered (BlockingCall) or dropped
    stopSnap,          \* what Free saw when it set running = false
    drainOwed,         \* an output callback was registered while the pump was
                       \* between its slot check and wait(), and the pump
                       \* has not left WaitForWork since
    \* ---- resource registry (resource.h, libavaddon.h)
    resourceClass,     \* the NAVResource subclass whose wrappers are followed
    resourceMap,       \* LibAvAddon::resourceMap: handle -> wrapper, 0 when absent
    wrapperHandle,     \* NAVResource::handle of each wrapper, 0 for nullptr
    wrapperLife,       \* "unborn" | "alive" | "finalized"
    handleCount,       \* native handles the library has handed out so far
    fromLog,           \* every FromHandle call, in order
    \* ---- the context lock
    mutexOwner         \* std::mutex mutex: "none", or the thread that holds it

vars == << opened, running, threadCount, handleState, isEncoder, inQueue,
           onFrameValid, onPacketValid, onErrorValid, outChan,
           framePool, framePoolHeight, packetPool, packetPoolHeight, nextContainer,
           pumpPc, localQueue, fed, pulled, notified,
           callerPc, callResult, nextId,
           engineBuf, refusals,
           sendLog, dispatchLog, errorLog, stopSnap, drainOwed,
           resourceClass, resourceMap, wrapperHandle, wrapperLife, handleCount, fromLog,
           mutexOwner >>

ctxVars == << opened, running, threadCount, handleState, isEncoder >>
slotVars == << onFrameValid, onPacketValid, onErrorValid, outChan >>
poolVars == << framePool, framePoolHeight, packetPool, packetPoolHeight, nextContainer >>
pumpLocals == << localQueue, fed, pulled >>
callerVars == << callerPc, callResult, nextId >>
engineVars == << engineBuf, refusals >>
logVars == << sendLog, dispatchLog, errorLog, stopSnap, drainOwed >>
regVars == << resourceClass, resourceMap, wrapperHandle, wrapperLife, handleCount, fromLog >>
lockVars == << mutexOwner >>
\* everything of NAVCodecContext and its pump
pumpVars == << ctxVars, inQueue, slotVars, poolVars, pumpPc, pumpLocals, notified,
              callerVars, engineVars, logVars, lockVars >>

Handles == 1..MaxHandles
Wrappers == 1..MaxWrappers

\* ----------------------------------------------------------------- helpers
NoSnap == [taken |-> FALSE, asleep |-> FALSE, queued |-> {}, sends |-> 0, dispatches |-> 0]

\* no container held between a receive and its dispatch
NoUnit == [c |-> 0, of |-> 0]

WorkItem(id, kind) == [id |-> id, kind |-> kind]

IdsOf(q) == { q[i].id : i \in 1..Len(q) }

\* threadWake.notify_one(): wakes the pump only if it is blocked in wait()
NotifyOne == IF pumpPc = "waiting" THEN TRUE ELSE notified

\* the kind of unit the engine takes as input
InputKind == IF isEncoder THEN "frame" ELSE "packet"

\* the kind of unit the engine gives as output
OutputKind == IF isEncoder THEN "packet" ELSE "frame"

\* avcodec_send_frame / avcodec_send_packet
TrySendResults(kind) ==
    IF handleState # "live" THEN {"Accepted", "Busy", "Error"}
    ELSE IF ~opened \/ kind # InputKind THEN {"Error"}
    ELSE (IF Len(engineBuf) < EngineCapacity THEN {"Accepted"} ELSE {"Busy"})
         \cup (IF refusals < MaxRefusals THEN {"Error"} ELSE {})

\* a send the engine refused although the context was open and the unit of its kind
SendRefused(kind, result) ==
    result = "Error" /\ handleState = "live" /\ opened /\ kind = InputKind

\* avcodec_receive_frame / avcodec_receive_packet
TryReceiveResults ==
    (IF engineBuf # << >> \/ handleState # "live" THEN {"Produced"} ELSE {})
    \cup (IF Len(engineBuf) < EngineCapacity \/ handleState # "live" THEN {"Busy"} ELSE {})
    \cup (IF refusals < MaxRefusals THEN {"Eof", "Error"} ELSE {})

\* the record of an engine send.  A Busy answer that repeats the record before
\* it (the same unit refused again in the same circumstances) is recorded once.
LogSend(entry) ==
    IF entry.res = "Busy" /\ sendLog # << >> /\ sendLog[Len(sendLog)] = entry
    THEN sendLog ELSE Append(sendLog, entry)

\* a SendError that does not look at onErrorValid
SendErrorAlwaysDelivers(src, id) ==
    Append(errorLog, [src |-> src, id |-> id, delivered |-> TRUE])

\* SendError: drops the event unless onErrorValid, else BlockingCall on onErrorTSFN
SendError(src, id) ==
    Append(errorLog, [src |-> src, id |-> id, delivered |-> onErrorValid])

\* the addon after module initialisation: no wrapper constructed, resourceMap empty
RegistryEmpty ==
    /\ resourceMap = [h \in Handles |-> 0]
    /\ wrapperHandle = [w \in Wrappers |-> 0]
    /\ wrapperLife = [w \in Wrappers |-> "unborn"]
    /\ handleCount = 0
    /\ fromLog = << >>

\* NAVCodecContext after its constructor (codec-context.cpp 11-20)
ContextInit ==
    /\ opened = FALSE
    /\ running = TRUE
    /\ threadCount = 0
    /\ handleState = "live"
    /\ isEncoder \in BOOLEAN
    /\ inQueue = << >>
    /\ onFrameValid = FALSE /\ onPacketValid = FALSE /\ onErrorValid = FALSE
    /\ outChan = 0
    /\ framePool = << >> /\ framePoolHeight = 0
    /\ packetPool = << >> /\ packetPoolHeight = 0
    /\ nextContainer = 0
    /\ pumpPc = "none"
    /\ localQueue = << >>
    /\ fed = FALSE
    /\ pulled = NoUnit
    /\ notified = FALSE
    /\ callerPc = "idle"
    /\ callResult = "ok"
    /\ nextId = 1
    /\ engineBuf = << >>
    /\ refusals = 0
    /\ sendLog = << >>
    /\ dispatchLog = << >>
    /\ errorLog = << >>
    /\ stopSnap = NoSnap
    /\ drainOwed = FALSE
    /\ mutexOwner = "none"

Init ==
    /\ resourceClass = "NAVFrame"
    /\ RegistryEmpty
    /\ ContextInit

\* ============================================================ caller thread

\* Open without the opened check: a second call initialises the engine and
\* spawns a pump thread again
OpenReopens ==
    /\ callerPc = "idle"
    /\ \E initOk \in BOOLEAN :
        IF ~initOk
        THEN /\ callResult' = "OpenFailed"
             /\ UNCHANGED << opened, threadCount, pumpPc >>
        ELSE /\ callResult' = "ok"
             /\ opened' = TRUE
             /\ threadCount' = threadCount + 1
             /\ pumpPc' = "loop"
    /\ UNCHANGED << running, handleState, isEncoder, inQueue, slotVars, poolVars,
                    pumpLocals, notified, callerPc, nextId, engineVars, logVars >>
    /\ UNCHANGED << regVars, lockVars >>

\* Open that sets opened before it looks at the result of avcodec_open2
OpenMarksEarly ==
    /\ callerPc = "idle"
    /\ \E initOk \in BOOLEAN :
        IF opened
        THEN /\ callResult' = "AlreadyOpened"
             /\ UNCHANGED << opened, threadCount, pumpPc >>
        ELSE IF ~initOk
        THEN /\ callResult' = "OpenFailed"
             /\ opened' = TRUE
             /\ UNCHANGED << threadCount, pumpPc >>
        ELSE /\ callResult' = "ok"
             /\ opened' = TRUE
             /\ threadCount' = threadCount + 1
             /\ pumpPc' = "loop"
    /\ UNCHANGED << running, handleState, isEncoder, inQueue, slotVars, poolVars,
                    pumpLocals, notified, callerPc, nextId, engineVars, logVars >>
    /\ UNCHANGED << regVars, lockVars >>

\* NAVCodecContext::Open
Open ==
    /\ callerPc = "idle"
    /\ \E initOk \in BOOLEAN :
        IF opened
        THEN /\ callResult' = "AlreadyOpened"
             /\ UNCHANGED << opened, threadCount, pumpPc >>
        ELSE IF ~initOk
        THEN /\ callResult' = "OpenFailed"
             /\ UNCHANGED << opened, threadCount, pumpPc >>
        ELSE /\ callResult' = "ok"
             /\ opened' = TRUE
             /\ threadCount' = threadCount + 1
             /\ pumpPc' = "loop"
    /\ UNCHANGED << running, handleState, isEncoder, inQueue, slotVars, poolVars,
                    pumpLocals, notified, callerPc, nextId, engineVars, logVars >>
    /\ UNCHANGED << regVars, lockVars >>


\* NAVCodecContext::SendFrame
SendFrame ==
    /\ callerPc = "idle"
    /\ nextId <= MaxUnits
    /\ InputKind = "frame"
    /\ inQueue' = Append(inQueue, WorkItem(nextId, "frame"))
    /\ notified' = NotifyOne
    /\ nextId' = nextId + 1
    /\ callResult' = "ok"
    /\ UNCHANGED << ctxVars, slotVars, poolVars, pumpPc, pumpLocals,
                    callerPc, engineVars, logVars >>
    /\ UNCHANGED << regVars, lockVars >>

\* NAVCodecContext::SendPacket
SendPacket ==
    /\ callerPc = "idle"
    /\ nextId <= MaxUnits
    /\ InputKind = "packet"
    /\ nextId' = nextId + 1
    /\ \E result \in TrySendResults("packet") :
        /\ sendLog' = LogSend([id |-> nextId, kind |-> "packet", res |-> result,
                                by |-> "caller", live |-> handleState = "live",
                                stopped |-> ~running])
        /\ engineBuf' = IF result = "Accepted" THEN Append(engineBuf, nextId) ELSE engineBuf
        /\ refusals' = IF SendRefused("packet", result) THEN refusals + 1 ELSE refusals
        /\ callResult' = IF result = "Accepted" THEN "ok" ELSE "SendFailed"
    /\ UNCHANGED << ctxVars, inQueue, slotVars, poolVars, pumpPc, pumpLocals, notified,
                    callerPc, dispatchLog, errorLog, stopSnap, drainOwed >>
    /\ UNCHANGED << regVars, lockVars >>

\* NAVCodecContext::SetOnFrame, on a context of either direction
SetOnFrameAnyDirection ==
    /\ callerPc = "idle"
    /\ \E registering \in BOOLEAN :
        /\ onFrameValid' = registering
        /\ notified' = IF registering THEN NotifyOne ELSE notified
        /\ drainOwed' = (registering /\ (drainOwed \/ pumpPc = "wait_lock"))
    /\ UNCHANGED << ctxVars, inQueue, onPacketValid, onErrorValid, outChan, poolVars, pumpPc,
                    pumpLocals, callerPc, nextId, engineVars,
                    sendLog, dispatchLog, errorLog, stopSnap >>
    /\ UNCHANGED << regVars, lockVars >>
    /\ callResult' = "ok"

\* NAVCodecContext::SetOnFrame, called on a context that outputs frames
SetOnFrame ==
    /\ OutputKind = "frame"
    /\ SetOnFrameAnyDirection

\* NAVCodecContext::SetOnPacket, on a context of either direction
SetOnPacketAnyDirection ==
    /\ callerPc = "idle"
    /\ \E registering \in BOOLEAN :
        /\ onPacketValid' = registering
        /\ notified' = IF registering THEN NotifyOne ELSE notified
        /\ drainOwed' = (registering /\ (drainOwed \/ pumpPc = "wait_lock"))
    /\ UNCHANGED << ctxVars, inQueue, onFrameValid, onErrorValid, outChan, poolVars, pumpPc,
                    pumpLocals, callerPc, nextId, engineVars,
                    sendLog, dispatchLog, errorLog, stopSnap >>
    /\ UNCHANGED << regVars, lockVars >>
    /\ callResult' = "ok"

\* NAVCodecContext::SetOnPacket, called on a context that outputs packets
SetOnPacket ==
    /\ OutputKind = "packet"
    /\ SetOnPacketAnyDirection

\* NAVCodecContext::SetOnError
SetOnError ==
    /\ callerPc = "idle"
    /\ \E registering \in BOOLEAN : onErrorValid' = registering
    /\ UNCHANGED << ctxVars, inQueue, onFrameValid, onPacketValid, outChan, poolVars, pumpPc,
                    pumpLocals, notified, callerPc, nextId, engineVars, logVars >>
    /\ UNCHANGED << regVars, lockVars >>
    /\ callResult' = "ok"

\* Free that forgets to clear running
FreeStopKeepsRunning ==
    /\ callerPc = "idle"
    /\ running' = running
    /\ callerPc' = "free_release"
    /\ stopSnap' = [taken |-> TRUE,
                    asleep |-> pumpPc = "waiting",
                    queued |-> IdsOf(inQueue) \cup IdsOf(localQueue),
                    sends |-> Len(sendLog),
                    dispatches |-> Len(dispatchLog)]
    /\ UNCHANGED << opened, threadCount, handleState, isEncoder, inQueue, slotVars, poolVars,
                    pumpPc, pumpLocals, notified, nextId,
                    engineVars, sendLog, dispatchLog, errorLog, drainOwed >>
    /\ UNCHANGED << regVars, lockVars >>
    /\ callResult' = "ok"

\* NAVCodecContext::Free, line 235: running = false
FreeStop ==
    /\ callerPc = "idle"
    /\ running' = FALSE
    /\ callerPc' = "free_release"
    /\ stopSnap' = [taken |-> TRUE,
                    asleep |-> pumpPc = "waiting",
                    queued |-> IdsOf(inQueue) \cup IdsOf(localQueue),
                    sends |-> Len(sendLog),
                    dispatches |-> Len(dispatchLog)]
    /\ UNCHANGED << opened, threadCount, handleState, isEncoder, inQueue, slotVars, poolVars,
                    pumpPc, pumpLocals, notified, nextId,
                    engineVars, sendLog, dispatchLog, errorLog, drainOwed >>
    /\ UNCHANGED << regVars, lockVars >>
    /\ callResult' = "ok"

\* NAVCodecContext::Free, lines 236-237: avcodec_free_context(&handle)
FreeRelease ==
    /\ callerPc = "free_release"
    /\ handleState' = "released"
    /\ callerPc' = "free_notify"
    /\ UNCHANGED << opened, running, threadCount, isEncoder, inQueue, slotVars, poolVars,
                    pumpPc, pumpLocals, notified, callResult, nextId,
                    engineVars, logVars >>
    /\ UNCHANGED << regVars, lockVars >>

\* NAVCodecContext::Free, line 240: threadWake.notify_one()
FreeNotify ==
    /\ callerPc = "free_notify"
    /\ notified' = NotifyOne
    /\ callerPc' = "free_join"
    /\ UNCHANGED << ctxVars, inQueue, slotVars, poolVars, pumpPc, pumpLocals,
                    callResult, nextId, engineVars, logVars >>
    /\ UNCHANGED << regVars, lockVars >>

\* NAVCodecContext::Free, lines 241-243: thread->join(); SetHandle(handle).
\* join() returns once the pump has left ThreadMain; with thread == nullptr
\* (the context was never opened) the call dereferences a null pointer.
FreeJoin ==
    /\ callerPc = "free_join"
    /\ \/ /\ threadCount = 0
          /\ callerPc' = "crashed"
          /\ UNCHANGED handleState
       \/ /\ threadCount > 0
          /\ pumpPc = "exited"
          /\ callerPc' = "freed"
          /\ handleState' = "null"
    /\ UNCHANGED << opened, running, threadCount, isEncoder, inQueue, slotVars, poolVars,
                    pumpPc, pumpLocals, notified, callResult, nextId,
                    engineVars, logVars >>
    /\ UNCHANGED << regVars, lockVars >>

\* ============================================================== pump thread

\* NAVCodecContext::ThreadMain, line 29: while (running)
\* (on the first pass after lines 23-27, which read the handle and the direction)
ThreadMainLoop ==
    /\ pumpPc = "loop"
    /\ pumpPc' = IF running THEN "feed_swap" ELSE "exited"
    /\ UNCHANGED << ctxVars, inQueue, slotVars, poolVars, pumpLocals, notified,
                    callerVars, engineVars, logVars >>
    /\ UNCHANGED << regVars, lockVars >>

\* NAVCodecContext::FeedToCodec, lines 126-137: swap the queue out under the lock
FeedToCodecSwap ==
    /\ pumpPc = "feed_swap"
    /\ localQueue' = inQueue
    /\ inQueue' = << >>
    /\ fed' = FALSE
    /\ pumpPc' = IF inQueue = << >> THEN "pull" ELSE "feed_check"
    /\ UNCHANGED << ctxVars, slotVars, poolVars, pulled, notified,
                    callerVars, engineVars, logVars >>
    /\ UNCHANGED << regVars, lockVars >>

\* NAVCodecContext::FeedToCodec, line 139: while (running && localQueue.size() > 0)
FeedToCodecCheck ==
    /\ pumpPc = "feed_check"
    /\ pumpPc' = IF running /\ localQueue # << >> THEN "feed_send" ELSE "feed_return"
    /\ UNCHANGED << ctxVars, inQueue, slotVars, poolVars, pumpLocals, notified,
                    callerVars, engineVars, logVars >>
    /\ UNCHANGED << regVars, lockVars >>

\* a feed phase that keeps the unit of a hard error for a retry
AfterSendRetriesErrors(result, q) == IF result = "Accepted" THEN Tail(q) ELSE q

\* what FeedToCodec does with the local list after a send, lines 149-159
AfterSend(result, q) == IF result = "Busy" THEN q ELSE Tail(q)

\* a feed phase that takes the item at the back of the local list
FeedToCodecSendFromBack ==
    /\ pumpPc = "feed_send"
    /\ LET workItem == localQueue[Len(localQueue)] IN
       \/ /\ handleState # "live"
          /\ pumpPc' = "crashed"
          /\ UNCHANGED << localQueue, fed, engineVars, sendLog, errorLog >>
       \/ \E result \in TrySendResults(workItem.kind) :
            /\ sendLog' = LogSend([id |-> workItem.id, kind |-> workItem.kind,
                                    res |-> result, by |-> "pump",
                                    live |-> handleState = "live",
                                    stopped |-> ~running])
            /\ engineBuf' = IF result = "Accepted" /\ handleState = "live"
                            THEN Append(engineBuf, workItem.id) ELSE engineBuf
            /\ refusals' = IF SendRefused(workItem.kind, result)
                           THEN refusals + 1 ELSE refusals
            /\ errorLog' = IF result = "Error" THEN SendError("send", workItem.id) ELSE errorLog
            /\ localQueue' = IF result = "Busy" THEN localQueue
                             ELSE SubSeq(localQueue, 1, Len(localQueue) - 1)
            /\ fed' = IF result = "Accepted" THEN TRUE ELSE fed
            /\ pumpPc' = IF result = "Accepted" THEN "feed_check" ELSE "feed_return"
    /\ UNCHANGED << ctxVars, inQueue, slotVars, poolVars, pulled, notified,
                    callerVars, dispatchLog, stopSnap, drainOwed >>
    /\ UNCHANGED << regVars, lockVars >>

\* NAVCodecContext::FeedToCodec, lines 140-159: send the front item.
\* On a released handle the call may also crash the pump.
FeedToCodecSend ==
    /\ pumpPc = "feed_send"
    /\ LET workItem == Head(localQueue) IN
       \/ /\ handleState # "live"
          /\ pumpPc' = "crashed"
          /\ UNCHANGED << localQueue, fed, engineVars, sendLog, errorLog >>
       \/ \E result \in TrySendResults(workItem.kind) :
            /\ sendLog' = LogSend([id |-> workItem.id, kind |-> workItem.kind,
                                    res |-> result, by |-> "pump",
                                    live |-> handleState = "live",
                                    stopped |-> ~running])
            /\ engineBuf' = IF result = "Accepted" /\ handleState = "live"
                            THEN Append(engineBuf, workItem.id) ELSE engineBuf
            /\ refusals' = IF SendRefused(workItem.kind, result)
                           THEN refusals + 1 ELSE refusals
            /\ errorLog' = IF result = "Error" THEN SendError("send", workItem.id) ELSE errorLog
            /\ localQueue' = AfterSend(result, localQueue)
            /\ fed' = IF result = "Accepted" THEN TRUE ELSE fed
            /\ pumpPc' = IF result = "Accepted" THEN "feed_check" ELSE "feed_return"
    /\ UNCHANGED << ctxVars, inQueue, slotVars, poolVars, pulled, notified,
                    callerVars, dispatchLog, stopSnap, drainOwed >>
    /\ UNCHANGED << regVars, lockVars >>

\* a feed phase that returns the unprocessed items to the back of the queue
FeedToCodecReturnToBack ==
    /\ pumpPc = "feed_return"
    /\ inQueue' = inQueue \o localQueue
    /\ localQueue' = << >>
    /\ pumpPc' = "pull"
    /\ UNCHANGED << ctxVars, slotVars, poolVars, fed, pulled, notified,
                    callerVars, engineVars, logVars >>
    /\ UNCHANGED << regVars, lockVars >>

\* NAVCodecContext::FeedToCodec, lines 162-172: return the unprocessed items
FeedToCodecReturn ==
    /\ pumpPc = "feed_return"
    /\ inQueue' = localQueue \o inQueue
    /\ localQueue' = << >>
    /\ pumpPc' = "pull"
    /\ UNCHANGED << ctxVars, slotVars, poolVars, fed, pulled, notified,
                    callerVars, engineVars, logVars >>
    /\ UNCHANGED << regVars, lockVars >>


\* where ThreadMain goes after the drain phase, lines 37-38: if (!fed) WaitForWork()
AfterPull == IF fed THEN "loop" ELSE "wait_lock"

\* a drain phase that is content with either output callback
OutputValidEitherSlot == onFrameValid \/ onPacketValid

\* the slot, pool and height the drain phase of this direction uses
OutputValid == IF isEncoder THEN onPacketValid ELSE onFrameValid
OutputPool == IF isEncoder THEN packetPool ELSE framePool
OutputHeight == IF isEncoder THEN packetPoolHeight ELSE framePoolHeight

\* an acquire that allocates a container whether the pool is empty or not
GetPoolAlwaysAllocates(pool, height) ==
    LET filled == Append(pool, nextContainer + 1) IN
    [unit |-> Head(filled), pool |-> Tail(filled),
     height |-> height + 1,
     allocated |-> nextContainer + 1]

\* GetPoolFrame / GetPoolPacket: allocate when empty, pop the front, height += 1
GetPool(pool, height) ==
    LET filled == IF pool = << >> THEN << nextContainer + 1 >> ELSE pool IN
    [unit |-> Head(filled), pool |-> Tail(filled),
     height |-> height + 1,
     allocated |-> IF pool = << >> THEN nextContainer + 1 ELSE nextContainer]

\* a release that forgets height -= 1
FreePoolKeepsHeight(pool, height, unit) ==
    LET pushed == Append(pool, unit) IN
    [pool |-> IF Len(pushed) > height + PoolSlack THEN Tail(pushed) ELSE pushed,
     height |-> height]

\* a release that lowers the height and loses the container
FreePoolDropsContainer(pool, height, unit) ==
    [pool |-> pool, height |-> height - 1]

\* FreePoolFrame / FreePoolPacket: push, height -= 1, burn the front beyond height + 4.
\* The height is a uint32_t; a decrement at 0 would wrap, and shows here as -1.
FreePool(pool, height, unit) ==
    LET pushed == Append(pool, unit)
        lower == height - 1 IN
    [pool |-> IF Len(pushed) > lower + PoolSlack THEN Tail(pushed) ELSE pushed,
     height |-> lower]

\* the receive results on which the drain phase returns the container and stops:
\* line 183 (decoder) and line 213 (encoder)
IsStarved(result) == result = "Busy" \/ (isEncoder /\ result = "Eof")

\* a drain loop that does not look at the callback slot
PullCheckIgnoresSlot ==
    /\ pumpPc = "pull"
    /\ pumpPc' = IF running THEN "pull_receive" ELSE AfterPull
    /\ UNCHANGED << ctxVars, inQueue, slotVars, poolVars, pumpLocals, notified,
                    callerVars, engineVars, logVars >>
    /\ UNCHANGED << regVars, lockVars >>

\* PullFromDecoder lines 176-178 / PullFromEncoder lines 206-208:
\* while (running) { if (!onFrameValid) break; ...
PullCheck ==
    /\ pumpPc = "pull"
    /\ pumpPc' = IF running /\ OutputValid THEN "pull_receive" ELSE AfterPull
    /\ UNCHANGED << ctxVars, inQueue, slotVars, poolVars, pumpLocals, notified,
                    callerVars, engineVars, logVars >>
    /\ UNCHANGED << regVars, lockVars >>

\* PullFromDecoder lines 180-191 / PullFromEncoder lines 210-222:
\* take a container from the pool and receive into it.
\* On a released handle the call may also crash the pump.
\* On a hard error lines 189 and 220 pass "averror:" + result to SendError: the
\* int is added to the address of the string literal and the std::string is
\* built from whatever lies there, so either SendError runs with some text as
\* its code or the read faults and the pump is gone.
ReceiveInto(result, faults) ==
    LET got == GetPool(OutputPool, OutputHeight)
        back == FreePool(got.pool, got.height, got.unit)
        after == IF IsStarved(result)
                 THEN [pool |-> back.pool, height |-> back.height]
                 ELSE [pool |-> got.pool, height |-> got.height]
        hard == result # "Produced" /\ ~IsStarved(result) IN
    /\ pumpPc = "pull_receive"
    /\ faults => hard
    /\ nextContainer' = got.allocated
    /\ IF isEncoder
       THEN /\ packetPool' = after.pool
            /\ packetPoolHeight' = after.height
            /\ UNCHANGED << framePool, framePoolHeight >>
       ELSE /\ framePool' = after.pool
            /\ framePoolHeight' = after.height
            /\ UNCHANGED << packetPool, packetPoolHeight >>
    /\ refusals' = IF result \in {"Eof", "Error"}
                   THEN refusals + 1 ELSE refusals
    /\ engineBuf' = IF result = "Produced" /\ engineBuf # << >>
                    THEN Tail(engineBuf) ELSE engineBuf
    /\ errorLog' = IF hard /\ ~faults THEN SendError("receive", 0) ELSE errorLog
    /\ pulled' = IF result = "Produced"
                 THEN [c |-> got.unit,
                       of |-> IF engineBuf # << >> THEN Head(engineBuf) ELSE 0]
                 ELSE pulled
    /\ pumpPc' = IF faults THEN "crashed"
                  ELSE IF result = "Produced" THEN "pull_dispatch" ELSE AfterPull
    /\ UNCHANGED << ctxVars, inQueue, slotVars, localQueue, fed, notified,
                    callerVars, sendLog, dispatchLog, stopSnap, drainOwed >>
    /\ UNCHANGED << regVars, lockVars >>

\* the drain loop's body after its checks: one of the results the engine can
\* give now, or the crash of a call on a released handle
PullReceive ==
    /\ pumpPc = "pull_receive"
    /\ \/ /\ handleState # "live"
          /\ pumpPc' = "crashed"
          /\ UNCHANGED << poolVars, pulled, engineVars, errorLog >>
          /\ UNCHANGED << ctxVars, inQueue, slotVars, localQueue, fed, notified,
                          callerVars, sendLog, dispatchLog, stopSnap, drainOwed >>
          /\ UNCHANGED << regVars, lockVars >>
       \/ \E result \in TryReceiveResults, faults \in BOOLEAN :
             ReceiveInto(result, faults)

\* a dispatch that looks at the slot again and drops the unit when the caller
\* has cleared the slot since the drain loop checked it
PullDispatchRechecksSlot ==
    /\ pumpPc = "pull_dispatch"
    /\ dispatchLog' = IF OutputValid
                      THEN Append(dispatchLog, [c |-> pulled.c, of |-> pulled.of,
                                                kind |-> OutputKind, stopped |-> ~running])
                      ELSE dispatchLog
    /\ outChan' = IF OutputValid THEN outChan + 1 ELSE outChan
    /\ pulled' = NoUnit
    /\ pumpPc' = "pull"
    /\ UNCHANGED << ctxVars, inQueue, onFrameValid, onPacketValid, onErrorValid,
                    poolVars, localQueue, fed, notified,
                    callerVars, engineVars, sendLog, errorLog, stopSnap, drainOwed >>
    /\ UNCHANGED << regVars, lockVars >>

\* a dispatch that puts the container back into its pool after the call
PullDispatchReleases ==
    /\ pumpPc = "pull_dispatch"
    /\ dispatchLog' = Append(dispatchLog, [c |-> pulled.c, of |-> pulled.of,
                                           kind |-> OutputKind, stopped |-> ~running])
    /\ outChan' = outChan + 1
    /\ LET back == FreePool(OutputPool, OutputHeight, pulled.c) IN
         IF isEncoder
         THEN /\ packetPool' = back.pool
              /\ packetPoolHeight' = back.height
              /\ UNCHANGED << framePool, framePoolHeight >>
         ELSE /\ framePool' = back.pool
              /\ framePoolHeight' = back.height
              /\ UNCHANGED << packetPool, packetPoolHeight >>
    /\ pulled' = NoUnit
    /\ pumpPc' = "pull"
    /\ UNCHANGED << ctxVars, inQueue, onFrameValid, onPacketValid, onErrorValid,
                    nextContainer, localQueue, fed, notified,
                    callerVars, engineVars, sendLog, errorLog, stopSnap, drainOwed >>
    /\ UNCHANGED << regVars, lockVars >>

\* a dispatch that goes ahead of the calls already queued
PullDispatchJumpsQueue ==
    /\ pumpPc = "pull_dispatch"
    /\ dispatchLog' = << [c |-> pulled.c, of |-> pulled.of,
                          kind |-> OutputKind, stopped |-> ~running] >> \o dispatchLog
    /\ outChan' = outChan + 1
    /\ pulled' = NoUnit
    /\ pumpPc' = "pull"
    /\ UNCHANGED << ctxVars, inQueue, onFrameValid, onPacketValid, onErrorValid,
                    poolVars, localQueue, fed, notified,
                    callerVars, engineVars, sendLog, errorLog, stopSnap, drainOwed >>
    /\ UNCHANGED << regVars, lockVars >>

\* PullFromDecoder lines 193-198 / PullFromEncoder lines 224-229:
\* BlockingCall on onFrameTSFN / onPacketTSFN.  The function was created with
\* ThreadSafeFunction::New(env, func, name, 0, 1): a maximum queue size of 0
\* is an unlimited queue, so the call queues the callback for the caller
\* thread and returns without waiting for it.
PullDispatch ==
    /\ pumpPc = "pull_dispatch"
    /\ dispatchLog' = Append(dispatchLog, [c |-> pulled.c, of |-> pulled.of,
                                           kind |-> OutputKind, stopped |-> ~running])
    /\ outChan' = outChan + 1
    /\ pulled' = NoUnit
    /\ pumpPc' = "pull"
    /\ UNCHANGED << ctxVars, inQueue, onFrameValid, onPacketValid, onErrorValid,
                    poolVars, localQueue, fed, notified,
                    callerVars, engineVars, sendLog, errorLog, stopSnap, drainOwed >>
    /\ UNCHANGED << regVars, lockVars >>

\* the caller thread runs one queued callback of PullFromDecoder lines 195-197 /
\* PullFromEncoder lines 226-228 (jsCallback.Call) between two of its own calls
CallOutputHandler ==
    /\ callerPc = "idle"
    /\ outChan > 0
    /\ outChan' = outChan - 1
    /\ UNCHANGED << ctxVars, inQueue, onFrameValid, onPacketValid, onErrorValid,
                    poolVars, pumpPc, pumpLocals, notified,
                    callerVars, engineVars, logVars >>
    /\ UNCHANGED << regVars, lockVars >>

\* a WaitForWork that returns without waiting
WaitForWorkNeverBlocks ==
    /\ pumpPc = "wait_lock"
    /\ pumpPc' = "loop"
    /\ notified' = FALSE
    /\ drainOwed' = FALSE
    /\ UNCHANGED << ctxVars, inQueue, slotVars, poolVars, pumpLocals,
                    callerVars, engineVars, sendLog, dispatchLog, errorLog, stopSnap >>
    /\ UNCHANGED << regVars, lockVars >>

\* NAVCodecContext::WaitForWork, lines 43-48: return if the queue has work, else wait
WaitForWork ==
    /\ pumpPc = "wait_lock"
    /\ pumpPc' = IF Len(inQueue) > 0 THEN "loop" ELSE "waiting"
    /\ notified' = FALSE
    /\ drainOwed' = IF Len(inQueue) > 0 THEN FALSE ELSE drainOwed
    /\ UNCHANGED << ctxVars, inQueue, slotVars, poolVars, pumpLocals,
                    callerVars, engineVars, sendLog, dispatchLog, errorLog, stopSnap >>
    /\ UNCHANGED << regVars, lockVars >>

\* threadWake.wait(lock) returns after a notify_one
WaitForWorkWake ==
    /\ pumpPc = "waiting"
    /\ notified
    /\ notified' = FALSE
    /\ drainOwed' = FALSE
    /\ pumpPc' = "loop"
    /\ UNCHANGED << ctxVars, inQueue, slotVars, poolVars, pumpLocals,
                    callerVars, engineVars, sendLog, dispatchLog, errorLog, stopSnap >>
    /\ UNCHANGED << regVars, lockVars >>

\* threadWake.wait(lock) may return without a notify (spurious wake-up)
WaitForWorkSpurious ==
    /\ pumpPc = "waiting"
    /\ ~notified
    /\ drainOwed' = FALSE
    /\ pumpPc' = "loop"
    /\ UNCHANGED << ctxVars, inQueue, slotVars, poolVars, pumpLocals, notified,
                    callerVars, engineVars, sendLog, dispatchLog, errorLog, stopSnap >>
    /\ UNCHANGED << regVars, lockVars >>

PumpStep ==
    \/ ThreadMainLoop
    \/ FeedToCodecSwap \/ FeedToCodecCheck \/ FeedToCodecSend \/ FeedToCodecReturn
    \/ PullCheck \/ PullReceive \/ PullDispatch
    \/ WaitForWork \/ WaitForWorkWake

FreeStep == FreeRelease \/ FreeNotify \/ FreeJoin

Next ==
    \/ Open \/ SendFrame \/ SendPacket
    \/ SetOnFrame \/ SetOnPacket \/ SetOnError \/ CallOutputHandler
    \/ FreeStop \/ FreeRelease \/ FreeNotify \/ FreeJoin
    \/ ThreadMainLoop
    \/ FeedToCodecSwap \/ FeedToCodecCheck \/ FeedToCodecSend \/ FeedToCodecReturn
    \/ PullCheck \/ PullReceive \/ PullDispatch
    \/ WaitForWork \/ WaitForWorkWake \/ WaitForWorkSpurious

Spec == Init /\ [][Next]_vars

\* The operating system schedules both threads: the pump keeps taking its next
\* step and a started Free keeps going.  A wait() is not owed a spurious wake-up.
FairSpec == Spec /\ WF_vars(PumpStep) /\ WF_vars(FreeStep)

\* ------------------------------------------------- the feed loop on its own
\* An encoder context that was opened some time ago and whose engine is full
\* of frames accepted before (ids 0 and below), with no output callback
\* registered: the caller submits frames and the pump feeds, finds the engine
\* busy, returns the leftovers and goes to WaitForWork.
EarlierIds == [i \in 1..EngineCapacity |-> i - EngineCapacity]

FeedInit ==
    /\ resourceClass = "NAVFrame"
    /\ RegistryEmpty
    /\ opened = TRUE /\ running = TRUE /\ threadCount = 1
    /\ handleState = "live"
    /\ isEncoder = TRUE
    /\ inQueue = << >>
    /\ onFrameValid = FALSE /\ onPacketValid = FALSE /\ onErrorValid = FALSE
    /\ outChan = 0
    /\ framePool = << >> /\ framePoolHeight = 0
    /\ packetPool = << >> /\ packetPoolHeight = 0
    /\ nextContainer = 0
    /\ pumpPc = "loop"
    /\ localQueue = << >>
    /\ fed = FALSE
    /\ pulled = NoUnit
    /\ notified = FALSE
    /\ callerPc = "idle"
    /\ callResult = "ok"
    /\ nextId = 1
    /\ engineBuf = EarlierIds
    /\ refusals = 0
    /\ sendLog = [i \in 1..EngineCapacity |->
                    [id |-> EarlierIds[i], kind |-> "frame", res |-> "Accepted",
                     by |-> "pump", live |-> TRUE, stopped |-> FALSE]]
    /\ dispatchLog = << >>
    /\ errorLog = << >>
    /\ stopSnap = NoSnap
    /\ drainOwed = FALSE
    /\ mutexOwner = "none"

FeedNext ==
    \/ SendFrame \/ SetOnError
    \/ ThreadMainLoop
    \/ FeedToCodecSwap \/ FeedToCodecCheck \/ FeedToCodecSend \/ FeedToCodecReturn
    \/ PullCheck
    \/ WaitForWork \/ WaitForWorkWake \/ WaitForWorkSpurious

FeedSpec == FeedInit /\ [][FeedNext]_vars

\* NAVCodecContext right after a successful Open (codec-context.cpp 246-273):
\* the pump thread is at the head of its loop, nothing registered or submitted yet
DrainInit ==
    /\ resourceClass = "NAVFrame"
    /\ RegistryEmpty
    /\ opened = TRUE /\ running = TRUE /\ threadCount = 1
    /\ handleState = "live"
    /\ isEncoder \in BOOLEAN
    /\ inQueue = << >>
    /\ onFrameValid = FALSE /\ onPacketValid = FALSE /\ onErrorValid = FALSE
    /\ outChan = 0
    /\ framePool = << >> /\ framePoolHeight = 0
    /\ packetPool = << >> /\ packetPoolHeight = 0
    /\ nextContainer = 0
    /\ pumpPc = "loop"
    /\ localQueue = << >>
    /\ fed = FALSE
    /\ pulled = NoUnit
    /\ notified = FALSE
    /\ callerPc = "idle"
    /\ callResult = "ok"
    /\ nextId = 1
    /\ engineBuf = << >>
    /\ refusals = 0
    /\ sendLog = << >>
    /\ dispatchLog = << >>
    /\ errorLog = << >>
    /\ stopSnap = NoSnap
    /\ drainOwed = FALSE
    /\ mutexOwner = "none"

\* an opened context whose caller submits units and registers or clears
\* either output callback, whatever the direction
DrainNext ==
    \/ SendFrame \/ SendPacket
    \/ SetOnFrameAnyDirection \/ SetOnPacketAnyDirection \/ CallOutputHandler
    \/ ThreadMainLoop
    \/ FeedToCodecSwap \/ FeedToCodecCheck \/ FeedToCodecSend \/ FeedToCodecReturn
    \/ PullCheck \/ PullReceive \/ PullDispatch
    \/ WaitForWork \/ WaitForWorkWake \/ WaitForWorkSpurious

DrainSpec == DrainInit /\ [][DrainNext]_vars

\* ============================================================ the context lock
\* The steps of the caller and the pump that take std::mutex mutex, one step
\* for the std::unique_lock constructor (which blocks while the other thread
\* holds the mutex) and one for the statements up to the unlock.

\* a FeedToCodec that keeps the mutex after its swap
FeedToCodecSwapKeepsLock ==
    /\ pumpPc = "feed_locked"
    /\ localQueue' = inQueue
    /\ inQueue' = << >>
    /\ fed' = FALSE
    /\ pumpPc' = IF inQueue = << >> THEN "pull" ELSE "feed_check"
    /\ UNCHANGED << ctxVars, slotVars, poolVars, pulled, notified,
                    callerVars, engineVars, logVars, regVars, lockVars >>

\* a FeedToCodec that goes on to its swap without taking the mutex
FeedToCodecLockSkipped ==
    /\ pumpPc = "feed_swap"
    /\ pumpPc' = "feed_locked"
    /\ UNCHANGED << ctxVars, inQueue, slotVars, poolVars, pumpLocals, notified,
                    callerVars, engineVars, logVars, regVars, lockVars >>

\* NAVCodecContext::SendFrame, line 300: std::unique_lock<std::mutex> lock(mutex)
SendFrameLock ==
    /\ callerPc = "idle"
    /\ nextId <= MaxUnits
    /\ InputKind = "frame"
    /\ mutexOwner = "none"
    /\ mutexOwner' = "caller"
    /\ callerPc' = "send_locked"
    /\ UNCHANGED << ctxVars, inQueue, slotVars, poolVars, pumpPc, pumpLocals, notified,
                    callResult, nextId, engineVars, logVars, regVars >>

\* NAVCodecContext::SendFrame, lines 301-308: push_back, notify_one, return
SendFramePush ==
    /\ callerPc = "send_locked"
    /\ inQueue' = Append(inQueue, WorkItem(nextId, "frame"))
    /\ notified' = NotifyOne
    /\ nextId' = nextId + 1
    /\ callResult' = "ok"
    /\ callerPc' = "idle"
    /\ mutexOwner' = "none"
    /\ UNCHANGED << ctxVars, slotVars, poolVars, pumpPc, pumpLocals,
                    engineVars, logVars, regVars >>

\* NAVCodecContext::FeedToCodec, line 126: std::unique_lock<std::mutex> lock(mutex)
FeedToCodecLock ==
    /\ pumpPc = "feed_swap"
    /\ mutexOwner = "none"
    /\ mutexOwner' = "pump"
    /\ pumpPc' = "feed_locked"
    /\ UNCHANGED << ctxVars, inQueue, slotVars, poolVars, pumpLocals, notified,
                    callerVars, engineVars, logVars, regVars >>

\* NAVCodecContext::FeedToCodec, lines 127-137: copy the queue, clear it, unlock
FeedToCodecSwapLocked ==
    /\ pumpPc = "feed_locked"
    /\ localQueue' = inQueue
    /\ inQueue' = << >>
    /\ fed' = FALSE
    /\ pumpPc' = IF inQueue = << >> THEN "pull" ELSE "feed_check"
    /\ mutexOwner' = "none"
    /\ UNCHANGED << ctxVars, slotVars, poolVars, pulled, notified,
                    callerVars, engineVars, logVars, regVars >>

\* NAVCodecContext::FeedToCodec, lines 163-164: if anything is left, lock again
FeedToCodecReturnLock ==
    /\ pumpPc = "feed_return"
    /\ IF localQueue = << >>
       THEN /\ pumpPc' = "pull"
            /\ UNCHANGED mutexOwner
       ELSE /\ mutexOwner = "none"
            /\ mutexOwner' = "pump"
            /\ pumpPc' = "return_locked"
    /\ UNCHANGED << ctxVars, inQueue, slotVars, poolVars, pumpLocals, notified,
                    callerVars, engineVars, logVars, regVars >>

\* NAVCodecContext::FeedToCodec, lines 166-170: push the leftovers to the front
FeedToCodecReturnLocked ==
    /\ pumpPc = "return_locked"
    /\ inQueue' = localQueue \o inQueue
    /\ localQueue' = << >>
    /\ pumpPc' = "pull"
    /\ mutexOwner' = "none"
    /\ UNCHANGED << ctxVars, slotVars, poolVars, fed, pulled, notified,
                    callerVars, engineVars, logVars, regVars >>

\* a WaitForWork that goes on to its size check without taking the mutex
WaitForWorkLockSkipped ==
    /\ pumpPc = "wait_lock"
    /\ pumpPc' = "wait_locked"
    /\ UNCHANGED << ctxVars, inQueue, slotVars, poolVars, pumpLocals, notified,
                    callerVars, engineVars, logVars, regVars, lockVars >>

\* NAVCodecContext::WaitForWork, line 43: std::unique_lock<std::mutex> lock(mutex)
WaitForWorkLock ==
    /\ pumpPc = "wait_lock"
    /\ mutexOwner = "none"
    /\ mutexOwner' = "pump"
    /\ pumpPc' = "wait_locked"
    /\ UNCHANGED << ctxVars, inQueue, slotVars, poolVars, pumpLocals, notified,
                    callerVars, engineVars, logVars, regVars >>

\* NAVCodecContext::WaitForWork, lines 45-46: return (and unlock) if the queue
\* has work, else go on to the wait with the mutex still held
WaitForWorkLocked ==
    /\ pumpPc = "wait_locked"
    /\ pumpPc' = IF Len(inQueue) > 0 THEN "loop" ELSE "wait_enter"
    /\ notified' = FALSE
    /\ drainOwed' = IF Len(inQueue) > 0 THEN FALSE ELSE drainOwed
    /\ mutexOwner' = IF Len(inQueue) > 0 THEN "none" ELSE mutexOwner
    /\ UNCHANGED << ctxVars, inQueue, slotVars, poolVars, pumpLocals,
                    callerVars, engineVars, sendLog, dispatchLog, errorLog, stopSnap,
                    regVars >>

\* NAVCodecContext::WaitForWork, line 48: threadWake.wait(lock) releases the
\* mutex and blocks, in one step
WaitForWorkWait ==
    /\ pumpPc = "wait_enter"
    /\ pumpPc' = "waiting"
    /\ mutexOwner' = "none"
    /\ UNCHANGED << ctxVars, inQueue, slotVars, poolVars, pumpLocals, notified,
                    callerVars, engineVars, logVars, regVars >>

\* threadWake.wait(lock) returns after a notify_one: it takes the mutex again,
\* and WaitForWork's return releases it
WaitForWorkWakeLocked ==
    /\ mutexOwner = "none"
    /\ WaitForWorkWake

\* the same for a spurious wake-up
WaitForWorkSpuriousLocked ==
    /\ mutexOwner = "none"
    /\ WaitForWorkSpurious

\* GetPoolFrame line 52 / GetPoolPacket line 77: std::unique_lock<std::mutex> lock(mutex)
GetPoolLock ==
    /\ pumpPc = "pull_receive"
    /\ mutexOwner = "none"
    /\ mutexOwner' = "pump"
    /\ pumpPc' = "pool_locked"
    /\ UNCHANGED << ctxVars, inQueue, slotVars, poolVars, pumpLocals, notified,
                    callerVars, engineVars, logVars, regVars >>

\* GetPoolFrame lines 54-61 / GetPoolPacket lines 79-86: allocate when empty,
\* pop the front, height += 1, return (and unlock)
GetPoolLocked ==
    /\ pumpPc = "pool_locked"
    /\ LET got == GetPool(OutputPool, OutputHeight) IN
         /\ nextContainer' = got.allocated
         /\ IF isEncoder
            THEN /\ packetPool' = got.pool
                 /\ packetPoolHeight' = got.height
                 /\ UNCHANGED << framePool, framePoolHeight >>
            ELSE /\ framePool' = got.pool
                 /\ framePoolHeight' = got.height
                 /\ UNCHANGED << packetPool, packetPoolHeight >>
         /\ pulled' = [c |-> got.unit, of |-> 0]
    /\ pumpPc' = "pull_engine"
    /\ mutexOwner' = "none"
    /\ UNCHANGED << ctxVars, inQueue, slotVars, localQueue, fed, notified,
                    callerVars, engineVars, logVars, regVars >>

\* PullFromDecoder lines 181-191 / PullFromEncoder lines 211-222:
\* avcodec_receive_* into the container just taken, and what follows its result
\* up to the release, the error or the dispatch
ReceiveUnlocked ==
    /\ pumpPc = "pull_engine"
    /\ \E result \in TryReceiveResults, faults \in BOOLEAN :
         LET hard == result # "Produced" /\ ~IsStarved(result) IN
         /\ faults => hard
         /\ refusals' = IF result \in {"Eof", "Error"}
                        THEN refusals + 1 ELSE refusals
         /\ engineBuf' = IF result = "Produced" /\ engineBuf # << >>
                         THEN Tail(engineBuf) ELSE engineBuf
         /\ errorLog' = IF hard /\ ~faults THEN SendError("receive", 0) ELSE errorLog
         /\ pulled' = IF result = "Produced"
                      THEN [c |-> pulled.c,
                            of |-> IF engineBuf # << >> THEN Head(engineBuf) ELSE 0]
                      ELSE IF IsStarved(result) THEN pulled ELSE NoUnit
         /\ pumpPc' = IF faults THEN "crashed"
                       ELSE IF result = "Produced" THEN "pull_dispatch"
                       ELSE IF IsStarved(result) THEN "pull_release" ELSE AfterPull
    /\ UNCHANGED << ctxVars, inQueue, slotVars, poolVars, localQueue, fed, notified,
                    callerVars, sendLog, dispatchLog, stopSnap, drainOwed,
                    regVars, lockVars >>

\* FreePoolFrame lines 65-73 / FreePoolPacket lines 90-98, called at lines 184
\* and 215: push, height -= 1, burn beyond height + 4.  No lock is taken.
FreePoolUnlocked ==
    /\ pumpPc = "pull_release"
    /\ LET back == FreePool(OutputPool, OutputHeight, pulled.c) IN
         IF isEncoder
         THEN /\ packetPool' = back.pool
              /\ packetPoolHeight' = back.height
              /\ UNCHANGED << framePool, framePoolHeight >>
         ELSE /\ framePool' = back.pool
              /\ framePoolHeight' = back.height
              /\ UNCHANGED << packetPool, packetPoolHeight >>
    /\ pulled' = NoUnit
    /\ pumpPc' = AfterPull
    /\ UNCHANGED << ctxVars, inQueue, slotVars, nextContainer, localQueue, fed, notified,
                    callerVars, engineVars, logVars, regVars, lockVars >>

\* an opened context of either direction, nothing registered or submitted yet
LockInit == DrainInit

LockNext ==
    \/ SendFrameLock \/ SendFramePush \/ SendPacket
    \/ SetOnFrame \/ SetOnPacket \/ CallOutputHandler
    \/ ThreadMainLoop
    \/ FeedToCodecLock \/ FeedToCodecSwapLocked
    \/ FeedToCodecCheck \/ FeedToCodecSend
    \/ FeedToCodecReturnLock \/ FeedToCodecReturnLocked
    \/ PullCheck
    \/ GetPoolLock \/ GetPoolLocked \/ ReceiveUnlocked \/ FreePoolUnlocked
    \/ PullDispatch
    \/ WaitForWorkLock \/ WaitForWorkLocked \/ WaitForWorkWait
    \/ WaitForWorkWakeLocked \/ WaitForWorkSpuriousLocked

LockSpec == LockInit /\ [][LockNext]_vars

TypeOK ==
    /\ opened \in BOOLEAN /\ running \in BOOLEAN
    /\ pumpPc \in {"none", "loop", "feed_swap", "feed_check", "feed_send",
                   "feed_return", "pull", "pull_receive", "pull_dispatch",
                   "wait_lock", "waiting", "exited", "crashed",
                   "feed_locked", "return_locked", "wait_locked", "wait_enter",
                   "pool_locked", "pull_engine", "pull_release"}
    /\ callerPc \in {"idle", "free_release", "free_notify", "free_join", "freed", "crashed",
                     "send_locked"}
    /\ mutexOwner \in {"none", "pump", "caller"}


\* ======================================================== resource registry
\* NAVResource<SelfT, HandleT> (src/native/resource.h) and the addon's
\* resourceMap (src/native/libavaddon.h).  The wrappers of one subclass are
\* followed at a time.  NAVCodec keeps the default RefHandle, which does
\* nothing, and never owns its handle; NAVFrame and NAVPacket override
\* RefHandle to move the wrapper to a new reference of its own and free their
\* handle in Free.  Native handles are numbered in the order the library hands
\* them out; the handles given to SetHandle are the ones its call sites give:
\* a handle just allocated, or nullptr.

ResourceClasses == {"NAVCodec", "NAVFrame", "NAVPacket"}

\* virtual bool IsResourceMappingEnabled(): none of the followed subclasses overrides it
IsResourceMappingEnabled == TRUE

\* the subclass overrides RefHandle with a SetHandle of a new reference
RefHandleMoves == resourceClass \in {"NAVFrame", "NAVPacket"}

\* the subclass allocates a handle in its constructor and frees it in Free
OwnsHandle == resourceClass \in {"NAVFrame", "NAVPacket"}

\* NAVResource::RegisterResource, on LibAvAddon::RegisterResource
RegisterResource(map, handle, w) ==
    IF handle = 0 \/ ~IsResourceMappingEnabled THEN map ELSE [map EXCEPT ![handle] = w]

\* NAVResource::UnregisterResource, on LibAvAddon::UnregisterResource
UnregisterResource(map, handle) ==
    IF handle = 0 THEN map ELSE [map EXCEPT ![handle] = 0]

\* a SetHandle that leaves the previous handle's entry in the resource map
SetHandleKeepsEntry(reg, w, handle) ==
    IF reg.handle[w] = handle THEN reg
    ELSE [map |-> RegisterResource(reg.map, handle, w),
          handle |-> [reg.handle EXCEPT ![w] = handle]]

\* NAVResource::SetHandle on wrapper w; reg is the pair of resourceMap and the
\* wrappers' handle fields
SetHandle(reg, w, handle) ==
    IF reg.handle[w] = handle THEN reg
    ELSE [map |-> RegisterResource(UnregisterResource(reg.map, reg.handle[w]), handle, w),
          handle |-> [reg.handle EXCEPT ![w] = handle]]

\* NAVResource::ConstructFromHandle: the new wrapper w adopts the handle
ConstructFromHandle(reg, w, handle) ==
    [map |-> RegisterResource(reg.map, handle, w),
     handle |-> [reg.handle EXCEPT ![w] = handle]]

\* RefHandle of wrapper w; fresh is the handle av_frame_alloc / av_packet_clone returns
RefHandle(reg, w, fresh) ==
    IF RefHandleMoves THEN SetHandle(reg, w, fresh) ELSE reg

\* Free of wrapper w: av_frame_free / av_packet_free and SetHandle(nullptr);
\* NAVCodec::Free does nothing
Free(reg, w) ==
    IF OwnsHandle THEN SetHandle(reg, w, 0) ELSE reg

Registry == [map |-> resourceMap, handle |-> wrapperHandle]

\* the wrapper the next construction makes
NewWrapper == Cardinality({w \in Wrappers : wrapperLife[w] # "unborn"}) + 1

AliveWrappers == {w \in Wrappers : wrapperLife[w] = "alive"}

\* the alive wrappers whose handle field is the handle
HoldersOf(handle) == {w \in AliveWrappers : wrapperHandle[w] = handle}

\* the alive wrappers that earlier FromHandle calls returned for the handle
IssuedFor(handle) ==
    {fromLog[i].wrapper : i \in {k \in 1..Len(fromLog) : fromLog[k].handle = handle}}
        \cap AliveWrappers

\* NAVResource::FromHandle(env, handle, refIsOwned) with a non-null handle: one
\* the library handed out before, or the next one it hands out
FromHandle ==
    /\ Len(fromLog) < MaxRequests
    /\ \E handle \in Handles, refIsOwned \in BOOLEAN :
        LET instance == resourceMap[handle]
            known == IF handle > handleCount THEN handle ELSE handleCount
            moves == ~refIsOwned /\ RefHandleMoves
            made == RefHandle(ConstructFromHandle(Registry, NewWrapper, handle),
                              NewWrapper, known + 1)
            after == IF refIsOwned THEN ConstructFromHandle(Registry, NewWrapper, handle)
                     ELSE made
            entry == [handle |-> handle, refIsOwned |-> refIsOwned,
                      holders |-> HoldersOf(handle), issued |-> IssuedFor(handle)]
        IN /\ handle <= handleCount + 1
           /\ IF instance # 0
              THEN /\ fromLog' = Append(fromLog, entry @@ [wrapper |-> instance,
                                                           constructed |-> FALSE])
                   /\ handleCount' = known
                   /\ UNCHANGED << resourceMap, wrapperHandle, wrapperLife >>
              ELSE /\ NewWrapper <= MaxWrappers
                   /\ moves => known < MaxHandles
                   /\ resourceMap' = after.map
                   /\ wrapperHandle' = after.handle
                   /\ wrapperLife' = [wrapperLife EXCEPT ![NewWrapper] = "alive"]
                   /\ handleCount' = IF moves THEN known + 1 ELSE known
                   /\ fromLog' = Append(fromLog, entry @@ [wrapper |-> NewWrapper,
                                                           constructed |-> TRUE])
    /\ UNCHANGED << resourceClass, pumpVars >>

\* the script constructs a wrapper (new AVFrame(), new AVPacket(), new AVCodec()):
\* NAVFrame and NAVPacket allocate a handle and SetHandle it, NAVCodec stays
\* without a handle
Construct ==
    /\ NewWrapper <= MaxWrappers
    /\ OwnsHandle => handleCount < MaxHandles
    /\ LET after == IF OwnsHandle THEN SetHandle(Registry, NewWrapper, handleCount + 1)
                    ELSE Registry
       IN /\ resourceMap' = after.map
          /\ wrapperHandle' = after.handle
    /\ wrapperLife' = [wrapperLife EXCEPT ![NewWrapper] = "alive"]
    /\ handleCount' = IF OwnsHandle THEN handleCount + 1 ELSE handleCount
    /\ UNCHANGED << resourceClass, fromLog, pumpVars >>

\* NAVResource::Finalize: the garbage collector collects an alive wrapper
Finalize ==
    /\ \E w \in AliveWrappers :
        LET handle == wrapperHandle[w]
            after == IF handle # 0
                     THEN Free([map |-> UnregisterResource(resourceMap, handle),
                                handle |-> wrapperHandle], w)
                     ELSE Registry
        IN /\ resourceMap' = after.map
           /\ wrapperHandle' = after.handle
           /\ wrapperLife' = [wrapperLife EXCEPT ![w] = "finalized"]
    /\ UNCHANGED << resourceClass, handleCount, fromLog, pumpVars >>

RegistryInit ==
    /\ resourceClass \in ResourceClasses
    /\ RegistryEmpty
    /\ ContextInit
    /\ isEncoder

RegistryNext == FromHandle \/ Construct \/ Finalize

RegistrySpec == RegistryInit /\ [][RegistryNext]_vars

\* ================================================================== claims

\* the ids of the units the engine accepted, in the order it accepted them
AcceptedIds == SelectSeq(sendLog, LAMBDA e : e.res = "Accepted")

TeardownAlwaysCompletes ==
    ~(callerPc = "free_join" /\ pumpPc = "waiting" /\ ~notified)

\* C3: once running is false no unit is dispatched to onFrame or onPacket.
NoDispatchAfterTeardown ==
    \A i \in 1..Len(dispatchLog) : ~dispatchLog[i].stopped

\* C4: a unit that is in the Work Queue (or the local list) when Free sets
\* running = false while the pump is asleep in wait() is never handed to the
\* engine afterwards and no output made from it is dispatched.
QueuedAtStopNeverFed ==
    (stopSnap.taken /\ stopSnap.asleep) =>
        /\ \A i \in (stopSnap.sends + 1)..Len(sendLog) : sendLog[i].id \notin stopSnap.queued
        /\ \A i \in (stopSnap.dispatches + 1)..Len(dispatchLog) :
                dispatchLog[i].of \notin stopSnap.queued

\* C4 witness: Free stopped a sleeping pump with a unit in the queue, and the
\* pump has since woken and left its loop
QueuedAtStopNeverFedWitness ==
    /\ stopSnap.taken /\ stopSnap.asleep
    /\ stopSnap.queued # {}
    /\ pumpPc = "exited"

\* C5: Submit is always accepted: no submission of a frame or a packet reports
\* an error at its call site.
SubmitAlwaysAccepted ==
    opened => callResult # "SendFailed"

\* C6: the pump thread is the only thread that calls the engine's send.
OnlyPumpCallsEngine ==
    \A i \in 1..Len(sendLog) : sendLog[i].by = "pump"

\* C7: the engine handle is released only after the pump thread has been
\* joined: while the handle is released the pump is not running.
ReleaseOnlyAfterJoin ==
    handleState = "released" => pumpPc \in {"none", "exited"}


\* everything Open must leave alone when it fails
openFrame == << running, handleState, isEncoder, inQueue, slotVars, poolVars,
                pumpPc, pumpLocals, notified, callerPc, nextId, engineVars, logVars >>

\* C8: Open on an opened context fails with the already-opened error and
\* changes nothing (no second engine initialisation, no second pump thread);
\* opened never goes back from true to false.
OpenTwiceFails ==
    [][ /\ (opened => opened')
        /\ (Open /\ opened) => /\ callResult' = "AlreadyOpened"
                               /\ threadCount' = threadCount
                               /\ UNCHANGED openFrame ]_vars

\* C8 witness: a second Open has been refused on an opened context
OpenTwiceFailsWitness ==
    opened /\ callResult = "AlreadyOpened" /\ threadCount = 1

\* C9: a failing Open reports its error at the call site and nothing reaches
\* onError; when the engine rejects the initialisation the context stays
\* unopened and no pump thread is created.
OpenErrorsSynchronous ==
    [][ Open => /\ errorLog' = errorLog
                /\ (opened => callResult' = "AlreadyOpened")
                /\ (callResult' = "ok" <=> (~opened /\ opened'))
                /\ (~opened /\ callResult' # "ok") =>
                        /\ callResult' = "OpenFailed"
                        /\ ~opened'
                        /\ threadCount' = threadCount
                        /\ pumpPc' = "none" ]_vars

\* C9 witness: the engine has rejected an Open while onError was registered
OpenErrorsSynchronousWitness ==
    callResult = "OpenFailed" /\ ~opened /\ onErrorValid /\ threadCount = 0

\* the sends of the pump that the engine answered with a hard error
FeedErrors == { i \in 1..Len(sendLog) : sendLog[i].by = "pump" /\ sendLog[i].res = "Error" }

\* the calls of SendError made for unit id in the feed phase
ErrorsFor(id) == { k \in 1..Len(errorLog) : errorLog[k].src = "send" /\ errorLog[k].id = id }

\* unit u has been accepted or discarded by the engine
Handled(u) == \E i \in 1..Len(sendLog) : sendLog[i].id = u /\ sendLog[i].res # "Busy"

\* unit u has been handed to the engine, whatever the engine answered
Sent(u) == \E i \in 1..Len(sendLog) : sendLog[i].id = u

\* C10 (state part): a unit the engine rejected with a hard error in the feed
\* phase is out of the queue and is never sent again, SendError ran exactly
\* once for it, and every unit submitted after it is still queued or was sent
\* after it.
FeedErrorIsolated ==
    \A i \in FeedErrors :
        LET id == sendLog[i].id IN
        /\ \A j \in 1..Len(sendLog) : j # i => sendLog[j].id # id \/ (j < i /\ sendLog[j].res = "Busy")
        /\ id \notin IdsOf(inQueue)
        /\ Cardinality(ErrorsFor(id)) = 1
        /\ \A u \in (id + 1)..(nextId - 1) :
              \/ u \in IdsOf(inQueue) \cup IdsOf(localQueue)
              \/ \E j \in (i + 1)..Len(sendLog) : sendLog[j].id = u

\* C10 (step part): the one SendError call delivers the event exactly when
\* onError is registered, and the failing send takes the unit off the local list.
FeedErrorStep ==
    [][ (FeedToCodecSend /\ Len(sendLog') > Len(sendLog)
                         /\ sendLog'[Len(sendLog')].res = "Error") =>
            /\ Len(errorLog') = Len(errorLog) + 1
            /\ errorLog'[Len(errorLog')].delivered = onErrorValid
            /\ localQueue' = Tail(localQueue)
            /\ pumpPc' = "feed_return" ]_vars

\* unit u is queued behind a unit the engine rejected and has not been sent
QueuedBehindError(u) ==
    /\ opened
    /\ u \in IdsOf(inQueue) \cup IdsOf(localQueue)
    /\ \E i \in FeedErrors : sendLog[i].id < u
    /\ ~Sent(u)

\* C10 (progress part): while the context runs and no further failure stops
\* the pump, no unit stays queued and unsent behind a rejected one for ever:
\* again and again every such unit has been sent to the engine.
FeedErrorProgress ==
    []<>(~running \/ pumpPc = "crashed" \/ \A u \in 2..MaxUnits : ~QueuedBehindError(u))

\* C10: error isolation in the feed phase.  A unit the engine rejects with a
\* hard error is removed and never sent again, exactly one error event is
\* raised for it (delivered when onError is registered), and the units
\* submitted after it are still sent, in order, on this or a later iteration.
ErrorIsolation == []FeedErrorIsolated /\ FeedErrorStep /\ FeedErrorProgress

\* C10 witness: the first unit was rejected while onError was registered, one
\* event was delivered for it, and the second unit was accepted afterwards
ErrorIsolationWitness ==
    \E i \in FeedErrors :
        /\ \E k \in ErrorsFor(sendLog[i].id) : errorLog[k].delivered
        /\ \E j \in (i + 1)..Len(sendLog) :
              sendLog[j].id > sendLog[i].id /\ sendLog[j].res = "Accepted"

\* the units the engine has produced: accepted on a live handle and no longer
\* in the engine's buffer
ProducedIds ==
    { AcceptedIds[i].id : i \in { k \in 1..Len(AcceptedIds) : AcceptedIds[k].live } }
        \ { engineBuf[i] : i \in 1..Len(engineBuf) }

\* the dispatches of the output made from unit u
DispatchesOf(u) == { i \in 1..Len(dispatchLog) : dispatchLog[i].of = u }

ReleaseStep ==
    /\ PullReceive
    /\ pumpPc' \notin {"crashed", "pull_dispatch"}
    /\ errorLog' = errorLog

\* C12: pool bound.  Both pools hold at most height + 4 containers in every
\* state, and a step that releases a container leaves at most height + 4
\* pooled, with height the number of containers checked out (allocated and not
\* pooled); the release pushes the container at the tail and removes at most
\* one container, the oldest, and only when the size would exceed height + 4.
PoolBound ==
    /\ [](/\ Len(framePool) <= framePoolHeight + 4
          /\ Len(packetPool) <= packetPoolHeight + 4)
    /\ [][ ReleaseStep =>
            LET got == GetPool(OutputPool, OutputHeight)
                pushed == Append(got.pool, got.unit) IN
            /\ Len(OutputPool') <= OutputHeight' + 4
            /\ OutputHeight' = nextContainer' - Len(OutputPool')
            /\ OutputPool' \in {pushed, Tail(pushed)}
            /\ OutputPool' # pushed => Len(pushed) > OutputHeight' + 4 ]_vars

\* C12 witness: after one unit was dispatched a receive found the engine busy
\* and its container went back to the pool
PoolBoundWitness ==
    /\ Len(dispatchLog) = 1
    /\ Len(OutputPool) = 1
    /\ OutputHeight = 1
    /\ nextContainer = 2

\* C13 as stated: the pump leaves the idle state only when a Submit, a
\* callback registration or Teardown has signalled it.
IdleUntilSignalled ==
    [][ (pumpPc = "waiting" /\ pumpPc' # "waiting") => notified ]_vars

\* nothing for the pump to do: no queued unit, and no output it could dispatch
Starved ==
    /\ inQueue = << >> /\ localQueue = << >>
    /\ engineBuf = << >> \/ ~OutputValid

\* what the pump thread owns or writes
pumpSide == << pumpPc, pumpLocals, poolVars, dispatchLog, errorLog >>

\* C13 (amended): idle correctness.  A drain phase that ends starved after a
\* feed phase that accepted nothing goes to WaitForWork; WaitForWork blocks
\* when the queue is empty; while blocked the pump changes nothing until
\* wait() returns, on a notify (which only SendFrame, a callback registration
\* or Free sends) or on a spurious wake-up of the condition variable; and
\* while the context runs with nothing to do the pump is blocked again and
\* again.
IdleCorrectness ==
    /\ [][ (ReleaseStep /\ ~fed) => pumpPc' = "wait_lock" ]_vars
    /\ [][ (WaitForWork /\ inQueue = << >>) => pumpPc' = "waiting" ]_vars
    /\ [][ pumpPc = "waiting" =>
            \/ UNCHANGED pumpSide
            \/ WaitForWorkWake
            \/ WaitForWorkSpurious ]_vars
    /\ [][ (~notified /\ notified') =>
            SendFrame \/ SetOnFrame \/ SetOnPacket \/ FreeNotify ]_vars
    /\ []<>(~opened \/ ~running \/ pumpPc \in {"waiting", "crashed"} \/ ~Starved)

\* C13 witness: the pump is blocked on an open, running context with an empty
\* queue after a receive that found the engine busy
IdleCorrectnessWitness ==
    /\ opened /\ running /\ OutputValid
    /\ pumpPc = "waiting" /\ ~notified
    /\ inQueue = << >> /\ engineBuf = << >>
    /\ Len(OutputPool) = 1

\* C14: decoder drain after submission.  On a decoder the submitted packets
\* are sent to the engine by the pump, a submission to an open decoder with
\* onFrame registered is followed by a drain phase (it queues the packet and
\* signals the pump, which is what makes an idle pump run one), and there are
\* never more onFrame dispatches than packets submitted.
DecoderDrainAfterSubmit ==
    /\ [](~isEncoder => \A i \in 1..Len(sendLog) : sendLog[i].by = "pump")
    /\ [](~isEncoder /\ handleState = "live" => Len(dispatchLog) <= nextId - 1)
    /\ [][ (SendPacket /\ opened /\ onFrameValid) =>
            /\ nextId \in IdsOf(inQueue')
            /\ pumpPc = "waiting" => notified' ]_vars

\* C15: registering a callback wakes the pump.  The pump is never left blocked
\* in wait(), with no notification on its way, by a registration that came
\* after its last look at the slot.
RegistrationWakesPump ==
    ~(drainOwed /\ OutputValid /\ running /\ pumpPc = "waiting" /\ ~notified)

\* C16: every submitted unit is eventually accepted or discarded.  While the
\* context is not torn down, a queued unit is eventually accepted by the
\* engine or discarded after a hard error.
EveryUnitHandled ==
    \A u \in 1..MaxUnits :
        (opened /\ u \in IdsOf(inQueue) \cup IdsOf(localQueue))
            ~> (~running \/ Handled(u))

\* a drain step in which the engine answered the receive with a hard error:
\* the answer is counted and the container stays checked out
DrainErrorStep ==
    /\ PullReceive
    /\ refusals' = refusals + 1
    /\ OutputHeight' = OutputHeight + 1

\* C17: a hard engine error in the drain phase raises one error event, ends
\* the drain phase of this iteration and leaves the pump running: it goes on
\* to WaitForWork or to the next iteration, and running is unchanged.
DrainErrorKeepsPump ==
    [][ DrainErrorStep =>
            /\ Len(errorLog') = Len(errorLog) + 1
            /\ errorLog'[Len(errorLog')].src = "receive"
            /\ pumpPc' = AfterPull
            /\ running' = running ]_vars

\* C18: SendError with onError unregistered drops the event.  Each SendError
\* delivers exactly when onErrorValid; a dropped event reaches no callback and
\* no call site, and the step differs in nothing from the same step with the
\* event delivered: the queue and the running flag are untouched, the pools
\* hold what the engine call left, and the pump goes where the error sends it.
ErrorDropHarmless ==
    [][ Len(errorLog') > Len(errorLog) =>
            LET event == errorLog'[Len(errorLog')]
                got == GetPool(OutputPool, OutputHeight) IN
            /\ Len(errorLog') = Len(errorLog) + 1
            /\ event.delivered = onErrorValid
            /\ UNCHANGED << inQueue, running, opened, callerVars, slotVars, dispatchLog >>
            /\ event.src = "send" =>
                    /\ UNCHANGED poolVars
                    /\ pumpPc' = "feed_return"
            /\ event.src = "receive" =>
                    /\ OutputPool' = got.pool /\ OutputHeight' = got.height
                    /\ pumpPc' = AfterPull ]_vars

\* C18 witness: an error was raised with no onError registered, the event was
\* dropped, and the pump went on to wait for work on a running context
ErrorDropHarmlessWitness ==
    /\ Len(errorLog) = 1 /\ ~errorLog[1].delivered
    /\ running /\ handleState = "live"
    /\ pumpPc = "waiting"

\* C19: dispatch backpressure.  At most one call is queued or running on the
\* output channel: the pump has at most one unit out that the handler has not
\* consumed.
DispatchBackpressure == outChan <= 1

OneWrapperPerHandle ==
    \A h \in Handles : Cardinality(HoldersOf(h)) <= 1

OnePumpThread ==
    /\ [](threadCount = IF opened THEN 1 ELSE 0)
    /\ [][ threadCount' # threadCount =>
            Open /\ ~opened /\ opened' /\ callResult' = "ok" ]_vars

\* C21 witness: a context that was opened, was given a unit that the pump sent
\* and an output callback, and was then torn down, has had one thread
OnePumpThreadWitness ==
    /\ callerPc = "freed" /\ threadCount = 1
    /\ nextId > 1 /\ OutputValid
    /\ \E i \in 1..Len(sendLog) : sendLog[i].by = "pump"

\* a feed step in which the engine answered Busy
BusyStep ==
    /\ FeedToCodecSend
    /\ pumpPc' # "crashed"
    /\ sendLog'[Len(sendLog')].res = "Busy"

\* C22: return to the front on Busy.  On a Busy answer the pump stops sending
\* and keeps the rejected unit at the head of its local list; the units the
\* caller submitted while the feed phase ran are all younger than the local
\* ones; and the return puts the local list, in its order, in front of them:
\* afterwards the queue is the rejected unit, the remaining local units, the
\* newly submitted units.
ReturnToFront ==
    /\ [][ BusyStep =>
            /\ pumpPc' = "feed_return"
            /\ localQueue' = localQueue
            /\ Head(localQueue').id = sendLog'[Len(sendLog')].id ]_vars
    /\ [](pumpPc \in {"feed_check", "feed_send", "feed_return"} =>
            \A i \in 1..Len(localQueue), j \in 1..Len(inQueue) :
                localQueue[i].id < inQueue[j].id)
    /\ [][ FeedToCodecReturn =>
            /\ inQueue' = localQueue \o inQueue
            /\ localQueue' = << >> ]_vars

\* C22 witness: the pump is about to return a local list whose head the engine
\* has just refused Busy, while the queue holds a unit submitted since the swap
ReturnToFrontWitness ==
    /\ pumpPc = "feed_return"
    /\ localQueue # << >> /\ inQueue # << >>
    /\ sendLog[Len(sendLog)].res = "Busy"
    /\ sendLog[Len(sendLog)].id = Head(localQueue).id

\* the Work Queue holds nothing but the unit the engine has just refused as busy
OnlyRefusedWork ==
    /\ inQueue # << >>
    /\ sendLog # << >>
    /\ LET last == sendLog[Len(sendLog)] IN
         /\ last.res = "Busy" /\ last.by = "pump"
         /\ \A i \in 1..Len(inQueue) : inQueue[i].id = last.id

\* C23: idle transition.  After an iteration that fed nothing the pump leaves
\* WaitForWork without having waited only when shutdown was requested or the
\* Work Queue holds work other than the unit the engine has just refused: with
\* nothing but the refused unit queued it blocks instead of looping again.
IdleTransition ==
    [][ (pumpPc = "wait_lock" /\ ~fed /\ pumpPc' = "loop")
            => (~running \/ ~OnlyRefusedWork) ]_vars

\* C24: no output callback, no drain.  A drain check that finds no callback
\* registered for the context's output kind ends the drain phase at once: the
\* pump goes on to the end of the iteration without the engine's receive, and
\* the step leaves the engine, both pools with their heights, the dispatches,
\* the queued callbacks and the error events as they were.
NoCallbackNoDrain ==
    [][ (PullCheck /\ ~OutputValid) =>
            /\ pumpPc' = AfterPull
            /\ pumpPc' # "pull_receive"
            /\ UNCHANGED << poolVars, engineVars, pulled, outChan,
                            dispatchLog, errorLog >> ]_vars

\* C24 witness: the engine holds output, no callback is registered, and the
\* pump has finished a drain phase without ever taking a container
NoCallbackNoDrainWitness ==
    /\ pumpPc = "wait_lock" /\ running
    /\ ~OutputValid
    /\ engineBuf # << >>
    /\ nextContainer = 0 /\ OutputPool = << >> /\ OutputHeight = 0
    /\ dispatchLog = << >> /\ errorLog = << >>

\* a drain step whose receive reported Busy (EAGAIN): no unit, no hard error,
\* and not the end of the stream
BusyReceive ==
    /\ PullReceive
    /\ pumpPc' \notin {"crashed", "pull_dispatch"}
    /\ errorLog' = errorLog
    /\ refusals' = refusals

\* C25: Busy on receive.  The container taken for the attempt goes back to its
\* pool and the drain phase ends: the height is what it was before the
\* attempt, the container is pooled and the next attempt takes a pooled
\* container without allocating, and the step dispatches nothing and reports
\* no error.
BusyReturnsContainer ==
    [][ BusyReceive =>
            LET got == GetPool(OutputPool, OutputHeight) IN
            /\ pumpPc' = AfterPull
            /\ OutputHeight' = OutputHeight
            /\ \E i \in 1..Len(OutputPool') : OutputPool'[i] = got.unit
            /\ Len(OutputPool') = Len(got.pool) + 1
            /\ OutputPool' # << >>
            /\ nextContainer' = got.allocated
            /\ UNCHANGED << dispatchLog, errorLog, outChan, pulled, engineBuf >> ]_vars

\* C25 witness: the only receive so far was refused as busy (no end of stream,
\* no error, no dispatch) and its container is the one pooled container
BusyReturnsContainerWitness ==
    /\ pumpPc \in {"loop", "wait_lock"}
    /\ OutputValid /\ running
    /\ nextContainer = 1 /\ OutputPool = << 1 >> /\ OutputHeight = 0
    /\ refusals = 0
    /\ dispatchLog = << >> /\ errorLog = << >>

\* C26: end of stream on receive is handled as Busy is, in both directions.
\* Every receive that ends with AVERROR_EOF returns the container to its pool
\* (the height is what it was before the attempt and the container is pooled),
\* ends the drain phase, and neither reports an error nor takes the pump down.
EofAsBusy ==
    [][ \A faults \in BOOLEAN :
          ReceiveInto("Eof", faults) =>
            LET got == GetPool(OutputPool, OutputHeight) IN
            /\ pumpPc' = AfterPull
            /\ OutputHeight' = OutputHeight
            /\ \E i \in 1..Len(OutputPool') : OutputPool'[i] = got.unit
            /\ errorLog' = errorLog
            /\ dispatchLog' = dispatchLog ]_vars

\* the same, for an encoder context only
EofAsBusyEncoder ==
    [][ \A faults \in BOOLEAN :
          (isEncoder /\ ReceiveInto("Eof", faults)) =>
            LET got == GetPool(OutputPool, OutputHeight) IN
            /\ pumpPc' = AfterPull
            /\ OutputHeight' = OutputHeight
            /\ \E i \in 1..Len(OutputPool') : OutputPool'[i] = got.unit
            /\ errorLog' = errorLog
            /\ dispatchLog' = dispatchLog ]_vars

\* C27: direction-specific drain.  The direction does not change while the
\* pump runs; every dispatch is of the direction's output kind; the drain loop
\* goes on to a receive exactly when the context runs and the direction's own
\* callback is registered, whatever the other slot holds; the other
\* direction's pool stays empty with height 0; and no pump step writes either
\* callback slot.
DirectionDrain ==
    /\ [][ pumpPc # "none" => isEncoder' = isEncoder ]_vars
    /\ [](\A i \in 1..Len(dispatchLog) :
            dispatchLog[i].kind = IF isEncoder THEN "packet" ELSE "frame")
    /\ [][ PullCheck =>
            ((pumpPc' = "pull_receive")
               <=> (running /\ IF isEncoder THEN onPacketValid ELSE onFrameValid)) ]_vars
    /\ [](IF isEncoder
          THEN framePool = << >> /\ framePoolHeight = 0
          ELSE packetPool = << >> /\ packetPoolHeight = 0)
    /\ [][ (pumpPc' # pumpPc) =>
            (onFrameValid' = onFrameValid /\ onPacketValid' = onPacketValid) ]_vars

\* C27 witness: an encoder whose caller has also registered a frame callback
\* has received into a packet container and dispatched a packet, and the
\* frame pool was never used
DirectionDrainWitness ==
    /\ isEncoder /\ onFrameValid
    /\ Len(dispatchLog) >= 1 /\ dispatchLog[1].kind = "packet"
    /\ nextContainer >= 1
    /\ framePool = << >> /\ framePoolHeight = 0
    /\ pumpPc = "pull"

\* a drain step whose receive produced a unit
ProducedStep ==
    /\ PullReceive
    /\ pumpPc' = "pull_dispatch"

\* C28: dispatch order is production order.  The engine's outputs come out in
\* the order their inputs were accepted, which is the order of their ids.  The
\* pump holds at most one produced unit: a receive that produces one finds
\* none held and takes the engine's oldest; the dispatch that follows appends
\* that unit, in the container it was received into, behind every earlier
\* dispatch.  So the dispatches are in production order, and the unit in
\* flight was produced after every dispatched one.
DispatchInProductionOrder ==
    /\ [][ ProducedStep =>
            /\ pulled = NoUnit
            /\ pulled'.of = (IF engineBuf # << >> THEN Head(engineBuf) ELSE 0)
            /\ dispatchLog' = dispatchLog ]_vars
    /\ [][ PullDispatch =>
            /\ Len(dispatchLog') = Len(dispatchLog) + 1
            /\ SubSeq(dispatchLog', 1, Len(dispatchLog)) = dispatchLog
            /\ dispatchLog'[Len(dispatchLog')].of = pulled.of
            /\ dispatchLog'[Len(dispatchLog')].c = pulled.c ]_vars
    /\ [](\A i, j \in 1..Len(dispatchLog) :
            (i < j /\ dispatchLog[i].of # 0 /\ dispatchLog[j].of # 0)
                => dispatchLog[i].of < dispatchLog[j].of)
    /\ [](\A i \in 1..Len(dispatchLog) :
            (pulled.of # 0 /\ dispatchLog[i].of # 0) => dispatchLog[i].of < pulled.of)

\* C28 witness: the first unit was dispatched in an earlier drain phase and the
\* second, received into another container, is about to be dispatched
DispatchInProductionOrderWitness ==
    /\ pumpPc = "pull_dispatch"
    /\ Len(dispatchLog) = 1 /\ dispatchLog[1].of = 1
    /\ pulled.of = 2 /\ pulled.c # dispatchLog[1].c
    /\ fed

\* C29: validity is checked immediately before each dispatch.  A unit is
\* handed to the output callback's thread-safe function only while the
\* callback slot is valid: a slot the caller cleared after the drain loop's
\* check, while the pump was taking a container or inside the engine's
\* receive, gets no dispatch.
DispatchOnlyToValidSlot ==
    [][ dispatchLog' # dispatchLog => OutputValid ]_vars

\* the positions at which a thread is between its lock and its unlock
PumpLocked == pumpPc \in {"feed_locked", "return_locked", "wait_locked", "wait_enter",
                          "pool_locked"}
CallerLocked == callerPc = "send_locked"

\* C30: the Work Queue is accessed only under the context lock.  Every step
\* that changes the queue is the locked part of Submit (by the caller, holding
\* the mutex), of the feed phase's swap or of the return of leftovers (by the
\* pump, holding the mutex); the idle check reads the queue with the mutex
\* held by the pump; a thread is between its lock and unlock exactly while it
\* owns the mutex, so the two threads are never inside these parts together.
QueueUnderLock ==
    /\ [][ inQueue' # inQueue =>
            \/ SendFramePush /\ mutexOwner = "caller"
            \/ FeedToCodecSwapLocked /\ mutexOwner = "pump"
            \/ FeedToCodecReturnLocked /\ mutexOwner = "pump" ]_vars
    /\ [][ SendFramePush => mutexOwner = "caller" ]_vars
    /\ [][ (FeedToCodecSwapLocked \/ FeedToCodecReturnLocked \/ WaitForWorkLocked)
              => mutexOwner = "pump" ]_vars
    /\ [](PumpLocked <=> mutexOwner = "pump")
    /\ [](CallerLocked <=> mutexOwner = "caller")
    /\ [](~(PumpLocked /\ CallerLocked))

\* C30 witness: the caller holds the mutex inside SendFrame, about to push a
\* second unit, while the pump stands at FeedToCodec's lock with the first
\* unit queued
QueueUnderLockWitness ==
    /\ callerPc = "send_locked" /\ mutexOwner = "caller"
    /\ pumpPc = "feed_swap"
    /\ Len(inQueue) = 1 /\ nextId = 2

\* the pump is about to make, or is inside, an engine send or receive
PumpInEngine == pumpPc \in {"feed_send", "pull_engine"}

\* C31: the context lock is never held across an engine call.  While the pump
\* is at an engine send or receive it does not own the mutex; a step that
\* calls the engine (the pump's send, the pump's receive, the caller's
\* synchronous SendPacket) is taken by a thread that does not own the mutex
\* and leaves the mutex as it was; and while the pump is at an engine call and
\* the caller is between calls, the mutex is free, so SendFrame's lock does
\* not wait for the engine.
NoLockAcrossEngine ==
    /\ [](PumpInEngine => mutexOwner # "pump")
    /\ [][ (FeedToCodecSend \/ ReceiveUnlocked) =>
            (mutexOwner # "pump" /\ mutexOwner' = mutexOwner) ]_vars
    /\ [][ SendPacket => (mutexOwner # "caller" /\ mutexOwner' = mutexOwner) ]_vars
    /\ []((PumpInEngine /\ callerPc = "idle") => mutexOwner = "none")

\* C31 witness: the pump is at an engine send with a unit in hand while the
\* caller holds the mutex inside SendFrame, about to push the next unit
NoLockAcrossEngineWitness ==
    /\ pumpPc = "feed_send" /\ localQueue # << >>
    /\ callerPc = "send_locked" /\ mutexOwner = "caller"
    /\ nextId = 2

\* C32: both Unit Pool operations run under the context lock.  Every step
\* that changes a pool or its height counter is taken by the pump while it
\* owns the mutex, the Acquire and the Release alike.
PoolUnderLock ==
    /\ [][ (<< framePool, framePoolHeight, packetPool, packetPoolHeight >>' #
            << framePool, framePoolHeight, packetPool, packetPoolHeight >>)
                => mutexOwner = "pump" ]_vars
    /\ [][ (GetPoolLocked \/ FreePoolUnlocked) => mutexOwner = "pump" ]_vars

\* the same for the Acquire alone
AcquireUnderLock ==
    [][ GetPoolLocked => mutexOwner = "pump" ]_vars

\* C33: the running flag.  It is true after construction; any step that
\* changes it takes it from true to false and is Free's first statement; Free's
\* first statement always leaves it false; and once false it stays false, so
\* it changes at most once.
RunningOnlyFalls ==
    /\ [][ running' # running => (running /\ ~running' /\ FreeStop) ]_vars
    /\ [][ FreeStop => ~running' ]_vars
    /\ [][ ~running => ~running' ]_vars
    /\ [](callerPc = "idle" => running)
    /\ [](callerPc \in {"free_release", "free_notify", "free_join", "freed"} => ~running)

\* C33 witness: an opened context that took a unit was torn down, the pump
\* has left its loop, and running is false
RunningOnlyFallsWitness ==
    /\ ~running /\ opened
    /\ callerPc = "freed" /\ pumpPc = "exited"
    /\ nextId > 1

\* C34: no lost wake-up on submission.  Whenever the pump is blocked in
\* wait() while the context runs and the Work Queue holds a unit, a
\* notify_one has reached it and the wake-up is pending; and the caller never
\* pushes between the pump's size check and its wait, because the pump owns
\* the mutex from the check until wait() releases it.
NoLostWakeupOnSubmit ==
    /\ []((pumpPc = "waiting" /\ running /\ inQueue # << >>) => notified)
    /\ [][ SendFramePush => pumpPc \notin {"wait_locked", "wait_enter"} ]_vars
    /\ [](pumpPc = "wait_enter" => (inQueue = << >> /\ mutexOwner = "pump"))

\* C34 witness: the pump went to sleep on an empty queue, the caller then
\* pushed a unit, and the signal is pending
NoLostWakeupOnSubmitWitness ==
    /\ pumpPc = "waiting" /\ notified
    /\ inQueue # << >> /\ callerPc = "idle"
    /\ sendLog = << >>

\* C35: teardown of a context that was never opened is safe.  With no pump
\* thread created, Free does not touch a thread: the caller is never taken
\* down by it, and Free's join step completes.
TeardownUnopenedSafe ==
    /\ [](threadCount = 0 => callerPc # "crashed")
    /\ [][ (FreeJoin /\ threadCount = 0) => callerPc' = "freed" ]_vars

\* the containers the pump holds between a receive and its dispatch
InHand == IF pulled = NoUnit THEN 0 ELSE 1

\* the hard errors the drain phase has reported or dropped
ReceiveErrors == { i \in 1..Len(errorLog) : errorLog[i].src = "receive" }

\* C36: no container leak in the drain phase.  While the pump is alive the
\* direction's height counter is the number of units dispatched so far plus
\* the one in hand, and every container allocated so far is pooled,
\* dispatched or in hand; so at the end of every drain phase, whatever ended
\* it, the height equals the number of dispatches.
NoContainerLeak ==
    pumpPc # "crashed" =>
        /\ OutputHeight = Len(dispatchLog) + InHand
        /\ nextContainer = Len(OutputPool) + Len(dispatchLog) + InHand

\* the same as long as no receive has ended in a hard error
NoContainerLeakWithoutErrors ==
    (pumpPc # "crashed" /\ ReceiveErrors = {}) =>
        /\ OutputHeight = Len(dispatchLog) + InHand
        /\ nextContainer = Len(OutputPool) + Len(dispatchLog) + InHand

\* the containers handed to the output callback so far
DeliveredContainers == { dispatchLog[i].c : i \in 1..Len(dispatchLog) }

\* the containers lying in either pool
PooledContainers ==
    { framePool[i] : i \in 1..Len(framePool) } \cup { packetPool[i] : i \in 1..Len(packetPool) }

\* C37: a dispatched container is gone from the pools for good.  No delivered
\* container is pooled, the container in the pump's hand is not a delivered
\* one, and no container taken from the pool by a receive is a delivered one.
DeliveredNeverPooled ==
    /\ [](DeliveredContainers \cap PooledContainers = {})
    /\ [](pulled # NoUnit => pulled.c \notin DeliveredContainers)
    /\ [][ PullReceive =>
            GetPool(OutputPool, OutputHeight).unit \notin DeliveredContainers ]_vars

\* C37 witness: after a dispatch a later receive took a container, found the
\* engine busy and put it back: the pooled container is not the delivered one
DeliveredNeverPooledWitness ==
    /\ Len(dispatchLog) = 1
    /\ OutputPool # << >>
    /\ Head(OutputPool) # dispatchLog[1].c
    /\ pumpPc \in {"loop", "wait_lock"}

\* how many times unit u occurs in a list of work items
Occurrences(q, u) == Cardinality({ i \in 1..Len(q) : q[i].id = u })

\* how many sends of unit u ended with the result res
SendsWith(u, res) ==
    Cardinality({ i \in 1..Len(sendLog) : sendLog[i].id = u /\ sendLog[i].res = res })

\* the places unit u is in: the Work Queue, the pump's local list, accepted
\* by the engine, discarded after a hard error
PlacesOf(u) ==
    Occurrences(inQueue, u) + Occurrences(localQueue, u)
        + SendsWith(u, "Accepted") + SendsWith(u, "Error")

\* C38: unit conservation.  Every unit submitted so far is in exactly one of
\* the four places, in every state.
UnitConservation ==
    \A u \in 1..(nextId - 1) : PlacesOf(u) = 1

\* the same for the units of an encoder context, which SendFrame queues
UnitConservationQueued ==
    isEncoder => \A u \in 1..(nextId - 1) : PlacesOf(u) = 1

\* a release that burns the oldest pooled container (FreePoolFrame lines
\* 69-73, FreePoolPacket lines 94-98)
BurnStep ==
    /\ ReleaseStep
    /\ Len(OutputPool') # Len(GetPool(OutputPool, OutputHeight).pool) + 1

\* C39: the pools stay small.  Each pool holds at most one idle container,
\* neither height counter is ever below zero, and no release burns a
\* container: the pool after a release is the pool after the acquire with the
\* released container appended.
AtMostOneIdle ==
    /\ [](Len(framePool) <= 1 /\ Len(packetPool) <= 1)
    /\ [](framePoolHeight >= 0 /\ packetPoolHeight >= 0)
    /\ [][ ~BurnStep ]_vars
    /\ [][ ReleaseStep =>
            LET got == GetPool(OutputPool, OutputHeight) IN
            /\ OutputPool' = Append(got.pool, got.unit)
            /\ Len(OutputPool') <= OutputHeight' + PoolSlack ]_vars

\* C39 witness: after a unit was sent, the drain found the engine busy and put
\* back the only container ever allocated; it is the one idle container
AtMostOneIdleWitness ==
    /\ Len(OutputPool) = 1 /\ OutputHeight = 0 /\ nextContainer = 1
    /\ pumpPc = "waiting" /\ OutputValid
    /\ Len(sendLog) >= 1 /\ dispatchLog = << >> /\ errorLog = << >>

====
